---- MODULE Spec2Model ----
(***************************************************************************)
(* The timed training session of brainTrain: the GameSession component     *)
(* (src/components/GameSession.tsx) mounted by App (src/App.tsx), with the *)
(* round generators of src/lib/gameLogic.ts as far as the session's        *)
(* handlers read their results.                                            *)
(*                                                                         *)
(* Granularity.  One action is one event of the browser's event loop: a    *)
(* click handler, an interval or timeout callback, together with the       *)
(* render it causes and the effects of that render (React commits a        *)
(* handler's state updates and runs the effects whose dependencies         *)
(* changed before the next event is dispatched).  A closure created by a   *)
(* handler keeps the values of the render the handler belongs to; the      *)
(* pending round-advance timeouts therefore carry the values they          *)
(* captured.                                                               *)
(***************************************************************************)
EXTENDS Integers, Sequences, FiniteSets, TLC

\* ------------------------------------------------------------- constants
GAME_DURATION == 60

\* --------------------------------------------------------------- bounds
\* Rounds resolved in one session of the full specification.
MaxRounds == 4
\* Rounds resolved, and incorrect resolutions, in one session of the
\* specification without countdown (SpecRamp).
MaxRampRounds == 31
MaxRampWrong == 2
\* The random cell draws of generateMemoryGrid land in the first
\* itemCount + TargetSlack cells of the grid.
TargetSlack == 1
\* Rounds resolved, and incorrect resolutions, in one session of the
\* specification whose player answers in the last seconds (SpecLate), and
\* the number of these seconds.
MaxLateRounds == 12
MaxLateWrong == 3
LateSeconds == 1
\* Sessions mounted one after the other in the specification with
\* restarts (SpecRestart), and the rounds resolved in each.
MaxSessions == 2
MaxRestartRounds == 4
\* Rounds resolved in one session of the specification whose player gives
\* the incorrect answers first (SpecTally).
MaxTallyRounds == 40

\* Draws of at most MaxFullDraw values are taken in full (FloorRandom), and
\* a shuffle is one of the rotations by 0..MaxRotation or its reversal.
MaxFullDraw == 4
MaxRotation == 0
\* The draws of the distractor loop of generateVisualMatchTask repeat with
\* this period.
MaxDrawPeriod == 2
\* Rounds resolved in one session of the specification of the generators
\* (SpecGen), every one of them correctly.
MaxGenRounds == 28
\* Rounds resolved in one session of the specification with fairness
\* (SpecFair).
MaxFairRounds == 2
\* Rounds resolved in one session of the specification with keyboard
\* input (SpecKeys).
MaxKeysRounds == 3
\* Rounds resolved in one session of the specification in real time
\* (SpecClock), and the ticks of the countdown it follows.
MaxClockRounds == 2
MaxClockSeconds == 3
\* Passes of a generator's resampling loop (SpecLoops).
MaxAttempts == 3

\* -------------------------------------------------------------- helpers
Min(a, b) == IF a < b THEN a ELSE b
Max(a, b) == IF a > b THEN a ELSE b

\* The ids of the game registry.
GAMES ==
  {"math", "stroop", "memory", "schulte", "visual", "logic", "flanker",
   "reflex", "order"}

\* The games whose buttons call handleAnswer directly on a click.
ChoiceGames == {"math", "stroop", "schulte", "visual", "logic", "flanker"}

\* ----------------------------------------------------------- generators
\* The session reads of a round only what its handlers and its buttons
\* use; `level` records the difficulty the generator was called with.

\* Math.min(5, 3 + Math.floor(difficulty / 4)) and the target count.
MemoryGridSize(d) == Min(5, 3 + (d \div 4))

\* One more target with every difficulty, and no cap on their number.
MemoryItemCountPerLevel(d) == 3 + d

MemoryItemCount(d) ==
  LET totalCells == MemoryGridSize(d) * MemoryGridSize(d)
  IN  Min((totalCells * 6) \div 10, 3 + (d \div 2))

\* The sets the draw loop of generateMemoryGrid can end with, the draws
\* landing in the first itemCount + TargetSlack cells.
DrawnTargets(totalCells, itemCount) ==
  LET n == Min(totalCells, itemCount + TargetSlack)
  IN  {T \in SUBSET (0 .. n - 1) : Cardinality(T) = itemCount}

generateMemoryGrid(d) ==
  LET gridSize == MemoryGridSize(d)
  IN  {[id |-> "memory", level |-> d, gridSize |-> gridSize, targets |-> T] :
         T \in DrawnTargets(gridSize * gridSize, MemoryItemCount(d))}

\* Math.min(5, 3 + Math.floor(difficulty / 4)) of generateReflexTask.
ReflexGridSize(d) == Min(5, 3 + (d \div 4))

generateReflexTask(d) ==
  LET size == ReflexGridSize(d)
      total == size * size
  IN  {[id |-> "reflex", level |-> d, size |-> size, total |-> total,
        activeIndex |-> a] : a \in 0 .. total - 1}

\* grid is a permutation of 1..total: the buttons carry exactly these values.
\* Math.min(5, 3 + Math.floor(difficulty / 3)) of generateOrderPathTask.
OrderGridSize(d) == Min(5, 3 + (d \div 3))

generateOrderPathTask(d) ==
  LET size == OrderGridSize(d)
      total == size * size
  IN  {[id |-> "order", level |-> d, size |-> size, maxNumber |-> total]}

\* The six games answered by one click on one of the presented options.
generateChoiceRound(id, d) == {[id |-> id, level |-> d]}

generateNextRound(id, d) ==
  CASE id = "memory" -> generateMemoryGrid(d)
    [] id = "reflex" -> generateReflexTask(d)
    [] id = "order"  -> generateOrderPathTask(d)
    [] OTHER         -> generateChoiceRound(id, d)

\* What the presented options of a round pass to handleAnswer: every round
\* of these games presents one option that is correct and one that is not
\* (math, logic: the answer among 4 choices; stroop: YES and NO; schulte:
\* the target among the grid; visual: the match among >= 2 options;
\* flanker: the four direction buttons).
Options(round) == {TRUE, FALSE}

\* App.showResult while no result is shown (null).
NoResult == [game |-> "none"]

\* ------------------------------------------------------- round contents
\* The generators of src/lib/gameLogic.ts with the whole content of the
\* round they return.  Each is the set of the rounds the generator can
\* return at the given difficulty, one for every outcome of its draws.

\* Math.floor(Math.random() * n): every value of 0..n-1 when n is at most
\* MaxFullDraw, and otherwise both ends, the quarters and the middle.
FloorRandom(n) ==
  IF n <= MaxFullDraw THEN 0 .. (n - 1)
  ELSE {0, 1, n \div 4, n \div 2, (3 * n) \div 4, n - 2, n - 1}

Range(seq) == {seq[i] : i \in 1 .. Len(seq)}

\* new Set(...).add(v) read back by Array.from: insertion order, and a
\* value that is already a member is not added again.
SetAddAgain(members, v) == Append(members, v)

SetAdd(members, v) ==
  IF v \in Range(members) THEN members ELSE Append(members, v)

Reverse(seq) == [i \in 1 .. Len(seq) |-> seq[Len(seq) + 1 - i]]

Rotate(seq, k) ==
  [i \in 1 .. Len(seq) |-> seq[((i - 1 + k) % Len(seq)) + 1]]

\* array.sort(() => Math.random() - 0.5): the array rearranged; of the
\* arrangements the rotations by 0..MaxRotation and their reversals.
Shuffles(seq) ==
  IF Len(seq) = 0 THEN {seq}
  ELSE UNION {{Rotate(seq, k), Reverse(Rotate(seq, k))} :
                k \in 0 .. Min(MaxRotation, Len(seq) - 1)}

\* const ops = ['+', '-', '*'] and the index drawn for it.
ops == <<"+", "-", "*">>

MathOperators(d) ==
  {ops[index + 1] : index \in FloorRandom(Min(IF d > 3 THEN 2 ELSE 1, 3))}

\* The largest value of the operands of '+' and '-'.
MathOperandMax(d) == IF d < 3 THEN 10 ELSE 10 * d

\* The operands as they are drawn: those of '*' are drawn again.
MathOperandsUnordered(operator, d) ==
  IF operator = "*"
  THEN {<<r + 2, s + 2>> : r \in FloorRandom(d + 2), s \in FloorRandom(d + 2)}
  ELSE {<<r + 1, s + 1>> : r \in FloorRandom(MathOperandMax(d)),
                           s \in FloorRandom(MathOperandMax(d))}

\* The operands of '-' left in the order they were drawn in.
MathOperandsAsDrawn(operator, d) == MathOperandsUnordered(operator, d)

\* The operands as the question shows them: `if (a < b) [a, b] = [b, a]`.
MathOperands(operator, d) ==
  {IF operator = "-" /\ p[1] < p[2] THEN <<p[2], p[1]>> ELSE p :
     p \in MathOperandsUnordered(operator, d)}

MathAnswer(operator, a, b) ==
  CASE operator = "+" -> a + b
    [] operator = "-" -> a - b
    [] operator = "*" -> a * b

\* `${a} ${operator} ${b}`: the three parts of the text, in its order.
MathQuestion(a, operator, b) == <<a, operator, b>>

\* One pass of `while (choices.size < 4)` that adds a member.
MathFakes(answer, choices) ==
  LET fakes == {answer + (r - 5) : r \in FloorRandom(10)}
      added == {fake \in fakes : fake >= 0 /\ fake # answer}
                 \cup (IF \E fake \in fakes : fake < 0
                       THEN {answer + (r + 1) : r \in FloorRandom(5)}
                       ELSE {})
  IN  {SetAdd(choices, v) : v \in added} \ {choices}

RECURSIVE MathChoices(_, _)
MathChoices(answer, choices) ==
  IF Len(choices) >= 4 THEN {choices}
  ELSE UNION {MathChoices(answer, more) : more \in MathFakes(answer, choices)}

generateMathQuestion(d) ==
  UNION {UNION {{[id |-> "math", level |-> d,
                  question |-> MathQuestion(p[1], operator, p[2]),
                  answer |-> MathAnswer(operator, p[1], p[2]),
                  choices |-> choices] :
                   choices \in UNION {Shuffles(m) :
                     m \in MathChoices(MathAnswer(operator, p[1], p[2]),
                                       <<MathAnswer(operator, p[1], p[2])>>)}} :
                  p \in MathOperands(operator, d)} :
           operator \in MathOperators(d)}

\* generateStroopQuestion: the word and the ink are two draws of 5 colours.
colors == <<"RED", "BLUE", "GREEN", "YELLOW", "PURPLE">>

generateStroopQuestion(d) ==
  {[id |-> "stroop", level |-> d, text |-> colors[textIndex + 1],
    color |-> colors[colorIndex + 1], isMatch |-> (textIndex = colorIndex)] :
     textIndex \in FloorRandom(Len(colors)),
     colorIndex \in FloorRandom(Len(colors))}

\* generateNumberSeries: arithmetic (type < 0.4), geometric (type < 0.7) or
\* alternating steps; `start` is drawn before the kind is looked at.
ArithmeticSeries(d) ==
  {[series |-> <<start, start + step, start + step * 2, start + step * 3>>,
    answer |-> start + step * 4] :
     start \in {r + 1 : r \in FloorRandom(20)},
     step \in {r + 1 : r \in FloorRandom(d)}}

GeometricSeries ==
  {[series |-> <<current, current * step, current * step * step,
                 current * (step * step * step)>>,
    answer |-> current * (step * step * step * step)] :
     step \in {r + 2 : r \in FloorRandom(2)},
     current \in {r + 1 : r \in FloorRandom(5)}}

AlternatingSeries ==
  {[series |-> <<start, start + s1, start + s1 + s2, start + s1 + s2 + s1>>,
    answer |-> start + s1 + s2 + s1 + s2] :
     start \in {r + 1 : r \in FloorRandom(20)},
     s1 \in {r + 1 : r \in FloorRandom(3)},
     s2 \in {r + 1 : r \in FloorRandom(3)}}

\* One pass of `while(choices.size < 4)` that adds a member.
SeriesFakes(answer, choices) ==
  LET fakes == {answer + (r - 10) : r \in FloorRandom(20)}
      added == {fake \in fakes : fake # answer /\ fake > 0}
  IN  {SetAdd(choices, v) : v \in added} \ {choices}

RECURSIVE SeriesChoices(_, _)
SeriesChoices(answer, choices) ==
  IF Len(choices) >= 4 THEN {choices}
  ELSE UNION {SeriesChoices(answer, more) :
                more \in SeriesFakes(answer, choices)}

generateNumberSeries(d) ==
  UNION {{[id |-> "logic", level |-> d, series |-> s.series,
           answer |-> s.answer, choices |-> choices] :
            choices \in UNION {Shuffles(m) :
                         m \in SeriesChoices(s.answer, <<s.answer>>)}} :
           s \in ArithmeticSeries(d) \cup GeometricSeries
                   \cup AlternatingSeries}

\* The cells numbered with their index: (_, i) => i.
CellsFromZero(total) == [i \in 1 .. total |-> i - 1]

\* The cells of a grid of `total` cells before they are shuffled:
\* Array.from({ length: total }, (_, i) => i + 1).
Cells(total) == [i \in 1 .. total |-> i]

\* The side of the grid taken from the remainder of the division.
SchulteGridSizeRemainder(d) == Min(5, 3 + (d % 3))

\* Math.min(5, 3 + Math.floor(difficulty / 3)) of generateSchulteGrid.
SchulteGridSize(d) == Min(5, 3 + (d \div 3))

generateSchulteGrid(d) ==
  LET size == SchulteGridSize(d)
      total == size * size
  IN  {[id |-> "schulte", level |-> d, size |-> size, grid |-> numbers,
        target |-> r + 1] :
         numbers \in Shuffles(Cells(total)), r \in FloorRandom(total)}

\* generateOrderPathTask with the grid it returns.
generateOrderPathGrid(d) ==
  {[id |-> round.id, level |-> d, size |-> round.size, grid |-> numbers,
    maxNumber |-> round.maxNumber] :
     <<round, numbers>> \in
       UNION {{<<r, n>> : n \in Shuffles(Cells(r.size * r.size))} :
                r \in generateOrderPathTask(d)}}

\* generateVisualMatchTask.  shapeGroups is 5 groups of 6 shapes, all 30
\* different; a shape is its group and its place in the group.  The
\* rotations play no part in which option matches and are left out.
ShapeGroups == 5
GroupShapes == 6

VisualNumOptions(d) == Min(9, 2 + ((2 * d) \div 3))

\* targetGroup.filter(s => s !== targetShape)[index].
SameGroupShape(target, index) ==
  <<target[1], IF index < target[2] THEN index ELSE index + 1>>

\* shapeGroups.filter((_, i) => i !== groupIdx).flat()[index].
OtherGroupShape(target, index) ==
  LET g == index \div GroupShapes
  IN  <<IF g < target[1] THEN g ELSE g + 1, index % GroupShapes>>

\* The shapes one pass of the distractor loop can draw, the index it draws
\* being the first or the last of its list.
EndsRandom(n) == {0, n - 1}

DistractorShapes(target, d) ==
  (IF d > 3
   THEN {SameGroupShape(target, i) : i \in EndsRandom(GroupShapes - 1)}
   ELSE {})
    \cup {OtherGroupShape(target, i) :
            i \in EndsRandom((ShapeGroups - 1) * GroupShapes)}

VisualOption(shape, isMatch) == [shape |-> shape, isMatch |-> isMatch]

\* The options before the shuffle: the correct one first, then the
\* distractors, whose draws repeat with period MaxDrawPeriod.
VisualOptions(target, d) ==
  LET period == Min(MaxDrawPeriod, Max(1, VisualNumOptions(d) - 1))
  IN  {[i \in 1 .. VisualNumOptions(d) |->
          IF i = 1 THEN VisualOption(target, TRUE)
          ELSE VisualOption(draws[((i - 2) % period) + 1], FALSE)] :
         draws \in [1 .. period -> DistractorShapes(target, d)]}

generateVisualMatchTask(d) ==
  UNION {{[id |-> "visual", level |-> d, target |-> target,
           options |-> options] :
            options \in UNION {Shuffles(o) : o \in VisualOptions(target, d)}} :
           target \in {<<g, s>> : g \in FloorRandom(ShapeGroups),
                                  s \in FloorRandom(GroupShapes)}}

\* generateFlankerTask.  A direction is its key; dirs gives the opposite.
dirs == <<"left", "right", "up", "down">>

Opp(key) ==
  CASE key = "left"  -> "right"
    [] key = "right" -> "left"
    [] key = "up"    -> "down"
    [] key = "down"  -> "up"

\* Math.random() < 0.2 + difficulty * 0.08 can fail while the bound is
\* below 1.
FlankerIncongruent(d) == {TRUE} \cup (IF 20 + d * 8 < 100 THEN {FALSE} ELSE {})

\* The reverse rule drawn at every difficulty.
FlankerReverseAnyLevel(d) == {FALSE, TRUE}

\* difficulty >= 3 && Math.random() < 0.15 + difficulty * 0.05.
FlankerReverse(d) == {FALSE} \cup (IF d >= 3 THEN {TRUE} ELSE {})

FlankerSequence(target, flanker) ==
  [i \in 1 .. 5 |-> IF i = (5 \div 2) + 1 THEN target ELSE flanker]

FlankerTargetKey(target, isReverse) == IF isReverse THEN Opp(target) ELSE target

generateFlankerTask(d) ==
  UNION {{[id |-> "flanker", level |-> d,
           sequence |-> FlankerSequence(target, flanker),
           targetKey |-> FlankerTargetKey(target, isReverse),
           isReverse |-> isReverse] :
            flanker \in UNION {IF isIncongruent
                               THEN {(SelectSeq(dirs, LAMBDA k : k # target))[r + 1] :
                                       r \in FloorRandom(3)}
                               ELSE {target} :
                                 isIncongruent \in FlankerIncongruent(d)},
            isReverse \in FlankerReverse(d)} :
           target \in {dirs[r + 1] : r \in FloorRandom(4)}}

\* timeToMemorize of the memory-phase effect, in milliseconds.
MemorizeDuration(d) == Max(800, 2500 - (d * 150))

\* generateNextRound with the whole content of the round.
generateRoundContent(id, d) ==
  CASE id = "math"     -> generateMathQuestion(d)
    [] id = "stroop"   -> generateStroopQuestion(d)
    [] id = "memory"   -> generateMemoryGrid(d)
    [] id = "schulte"  -> generateSchulteGrid(d)
    [] id = "visual"   -> generateVisualMatchTask(d)
    [] id = "logic"    -> generateNumberSeries(d)
    [] id = "flanker"  -> generateFlankerTask(d)
    [] id = "reflex"   -> generateReflexTask(d)
    [] id = "order"    -> generateOrderPathGrid(d)

\* ---------------------------------------------------------------- state
VARIABLES
  activeGame,       \* App: the game of the mounted session, or "none"
  mounts,           \* the GameSession instances mounted so far; the last
                    \* one is the mounted one
  showResult,       \* App: the result modal's record, or NoResult
  timeLeft,
  score,
  difficulty,
  streak,
  currentData,
  feedback,         \* "none" | "correct" | "wrong"
  memoryPhase,      \* "memorize" | "recall"
  selectedIndices,
  nextOrderNum,
  correctCount,     \* correctCountRef.current
  totalCount,       \* totalCountRef.current
  interval,         \* the countdown setInterval is armed
  memoryTimer,      \* the memorize setTimeout is pending
  advanceTimers,    \* the pending round-advance timeouts, oldest first
  \* histories of the last mounted session:
  completeCalls,    \* history: invocations of onComplete
  exitCalls,        \* history: invocations of onExit
  resolutions,      \* history: invocations of handleAnswer
  correctRun,       \* history: the difficulty each correct resolution since
                    \* the last incorrect one was resolved at, oldest first
  touched,          \* history: a button of the round on display has
                    \* received a click or a press
  clock,            \* the time passed, in quanta of Quantum ms, since the
                    \* interval was armed (armed), since timeLeft last
                    \* changed (tick), since the latest round-advance
                    \* timeout was armed (pause) and since the memorize
                    \* timeout was armed (shown)
  stats,            \* the statistics kept in localStorage, as getStats
                    \* returns them
  loop              \* the resampling loop of a generator run on its own:
                    \* its generator, the round's level and answer (or
                    \* target), the options collected and the passes made

session ==
  <<timeLeft, score, difficulty, streak, currentData, feedback, memoryPhase,
    selectedIndices, nextOrderNum, correctCount, totalCount>>

vars ==
  <<activeGame, mounts, showResult, timeLeft, score, difficulty, streak, currentData,
    feedback, memoryPhase, selectedIndices, nextOrderNum, correctCount,
    totalCount, interval, memoryTimer, advanceTimers, completeCalls,
    exitCalls, resolutions, correctRun, touched, clock, loop, stats>>

Mounted == activeGame # "none"

\* The delays of the three timers, in ms, and the grain of the clock: every
\* delay is a multiple of it.
Quantum == 50

IntervalDelay == 1000

AdvanceDelay(id) == IF id = "reflex" THEN 100 ELSE 500

ClockZero == [armed |-> 0, tick |-> 0, pause |-> 0, shown |-> 0]

\* No generator is run on its own.
NoLoop == [gen |-> "none"]

\* services/storage: the statistics of a player who has not played yet.
INITIAL_STATS ==
  [calculation |-> 40, execution |-> 40, memory |-> 40, attention |-> 40,
   visual |-> 40, abstraction |-> 40, gamesPlayed |-> 0,
   lastTrained |-> "null"]

Dimensions ==
  {"calculation", "execution", "memory", "attention", "visual",
   "abstraction"}

\* The dimension of each game of the registry.
Dimension(game) ==
  CASE game = "math" -> "calculation"
    [] game = "stroop" -> "execution"
    [] game = "memory" -> "memory"
    [] game = "schulte" -> "attention"
    [] game = "visual" -> "visual"
    [] game = "logic" -> "abstraction"
    [] game = "flanker" -> "attention"
    [] game = "reflex" -> "execution"
    [] game = "order" -> "attention"

\* The feedback overlay covers the game area while feedback is set.
Overlay == feedback # "none"

\* ----------------------------------------------------------------- Init
\* handleStartGame(game) has mounted a session: the initial useState
\* values, the initial-load effect, the timer effect and the memory-phase
\* effect of the first render.
Init ==
  /\ activeGame \in GAMES
  /\ mounts = 1
  /\ showResult = NoResult
  /\ timeLeft = GAME_DURATION
  /\ score = 0
  /\ difficulty = 1
  /\ streak = 0
  /\ currentData \in generateNextRound(activeGame, 1)
  /\ feedback = "none"
  /\ memoryPhase = "memorize"
  /\ selectedIndices = {}
  /\ nextOrderNum = 1
  /\ correctCount = 0
  /\ totalCount = 0
  /\ interval = TRUE
  /\ memoryTimer = (activeGame = "memory")
  /\ advanceTimers = <<>>
  /\ completeCalls = 0
  /\ exitCalls = 0
  /\ resolutions = 0
  /\ correctRun = <<>>
  /\ touched = FALSE
  /\ clock = ClockZero
  /\ loop = NoLoop
  /\ stats = INITIAL_STATS

\* -------------------------------------------------------------- effects
\* IEEE 754 double arithmetic, as far as the accuracy needs it.  A double
\* with 53 significant bits is kept in three limbs <<a, b, c>> that stand
\* for a * 2^36 + b * 2^18 + c with b, c < 2^18.
Limb == 262144

\* n / t for 0 < n < t < 2^12, rounded to nearest, ties to even: the
\* quotient is m * 2^-(lead + 52) with m = floor(n * 2^(lead + 52) / t) in
\* [2^52, 2^53) before the rounding.
RECURSIVE LeadingZeros(_, _)
LeadingZeros(n, t) == IF 2 * n >= t THEN 1 ELSE 1 + LeadingZeros(2 * n, t)

\* Carries of the lower limbs moved upwards.
Carried(m) ==
  LET c == m[3] % Limb
      b == m[2] + (m[3] \div Limb)
  IN  <<m[1] + (b \div Limb), b % Limb, c>>

DoubleQuotient(n, t) ==
  LET lead == LeadingZeros(n, t)
      r0 == n * 2^(lead - 1)
      a  == (r0 * 131072) \div t
      r1 == (r0 * 131072) % t
      b  == (r1 * Limb) \div t
      r2 == (r1 * Limb) % t
      c  == (r2 * Limb) \div t
      r3 == (r2 * Limb) % t
      up == 2 * r3 > t \/ (2 * r3 = t /\ c % 2 = 1)
  IN  [lead |-> lead, m |-> Carried(<<a, b, IF up THEN c + 1 ELSE c>>)]

\* q * 100 rounded to nearest, ties to even: the exact product has 59 or
\* 60 bits, of which the lowest 6 or 7 are rounded away.
DoubleTimes100(q) ==
  LET p == Carried(<<100 * q.m[1], 100 * q.m[2], 100 * q.m[3]>>)
      drop == IF p[1] >= 8388608 THEN 128 ELSE 64
      rest == p[3] % drop
      kept == p[3] - rest
      up == 2 * rest > drop \/ (2 * rest = drop /\ (kept \div drop) % 2 = 1)
  IN  [lead |-> q.lead,
       m |-> Carried(<<p[1], p[2], IF up THEN kept + drop ELSE kept>>)]

\* Math.round(x) is floor(x + 1/2) for the double x = m * 2^-(lead + 52),
\* decided by the bits of m from 2^(lead + 51) upwards.
MathRound(x) == (x.m[1] \div 2^(x.lead + 15) + 1) \div 2

\* totalCount > 0 ? Math.round((correctCount / totalCount) * 100) : 0, in
\* doubles (0 / t and t / t are exact).
Accuracy(correct, total) ==
  CASE total <= 0 -> 0
    [] total > 0 /\ correct = 0 -> 0
    [] total > 0 /\ correct = total -> 100
    [] total > 0 /\ 0 < correct /\ correct < total ->
         MathRound(DoubleTimes100(DoubleQuotient(correct, total)))

\* A number of up to 72 bits in four limbs <<a, b, c, d>> that stand for
\* a * 2^54 + b * 2^36 + c * 2^18 + d.
Carried4(n) ==
  LET d == n[4] % Limb
      c == n[3] + (n[4] \div Limb)
      b == n[2] + (c \div Limb)
  IN  <<n[1] + (b \div Limb), b % Limb, c % Limb, d>>

TimesSmall(n, k) == Carried4(<<k * n[1], k * n[2], k * n[3], k * n[4]>>)

Plus4(n, m) ==
  Carried4(<<n[1] + m[1], n[2] + m[2], n[3] + m[3], n[4] + m[4]>>)

RECURSIVE BitLength(_)
BitLength(v) == IF v = 0 THEN 0 ELSE 1 + BitLength(v \div 2)

BitLength4(n) ==
  CASE n[1] > 0 -> 54 + BitLength(n[1])
    [] n[1] = 0 /\ n[2] > 0 -> 36 + BitLength(n[2])
    [] n[1] = 0 /\ n[2] = 0 /\ n[3] > 0 -> 18 + BitLength(n[3])
    [] OTHER -> BitLength(n[4])

\* n rounded to 53 significant bits, to nearest, ties to even (at most 18
\* bits are rounded away here).
RoundTo53(n) ==
  LET drop == 2^Max(0, BitLength4(n) - 53)
      rest == n[4] % drop
      kept == n[4] - rest
      up == 2 * rest > drop \/ (2 * rest = drop /\ (kept \div drop) % 2 = 1)
  IN  Carried4(<<n[1], n[2], n[3], IF up THEN kept + drop ELSE kept>>)

\* The doubles 0.7 = 6305039478318694 * 2^-53 and
\* 0.3 = 5404319552844595 * 2^-54.
Double07 == <<0, 91750, 104857, 157286>>

Double03 == <<0, 78643, 52428, 209715>>

\* (currentVal * 0.7) + (performanceScore * 0.3) in doubles, in units of
\* 2^-54: each product and the sum are rounded to 53 bits.
WeightedAverage(currentVal, performanceScore) ==
  RoundTo53(Plus4(TimesSmall(RoundTo53(TimesSmall(Double07, currentVal)), 2),
                  RoundTo53(TimesSmall(Double03, performanceScore))))

\* Math.round of a double in units of 2^-54: the first limb is its
\* integer part, and the fraction is at least 1/2 when bit 53 is set.
MathRound54(x) == x[1] + (IF x[2] >= 131072 THEN 1 ELSE 0)

\* The weighted average in exact arithmetic, halves rounded upwards.
NewValExact(currentVal, performanceScore) ==
  Min(100, Max(0, (7 * currentVal + 3 * performanceScore + 5) \div 10))

\* Math.min(100, Math.max(0, Math.round((currentVal * 0.7) +
\* (performanceScore * 0.3)))).
NewVal(currentVal, performanceScore) ==
  Min(100, Max(0, MathRound54(WeightedAverage(currentVal, performanceScore))))

\* services/storage updateStats, applied to what getStats returns.
updateStats(current, dimension, performanceScore) ==
  [current EXCEPT ![dimension] = NewVal(current[dimension], performanceScore),
                  !.gamesPlayed = current.gamesPlayed + 1,
                  !.lastTrained = "date"]

\* The performance index without Math.min(100, ...).
PerformanceNoCap(sc, d) == (sc + 120 * d + 10) \div 20

\* Math.min(100, Math.round((score / 20) + (difficulty * 6))), in
\* twentieths.
Performance(sc, d) == Min(100, (sc + 120 * d + 10) \div 20)

\* handleGameComplete without setActiveGame(null).
handleGameCompleteStaysMounted(perf, accuracy, level) ==
  IF ~Mounted
  THEN UNCHANGED <<showResult, activeGame, stats>>
  ELSE /\ stats' = updateStats(stats, Dimension(activeGame), perf)
       /\ showResult' = [score |-> perf, accuracy |-> accuracy,
                         level |-> level, game |-> activeGame]
       /\ UNCHANGED activeGame

\* App.handleGameComplete: the result is shown and the session unmounted.
handleGameComplete(perf, accuracy, level) ==
  IF ~Mounted
  THEN UNCHANGED <<showResult, activeGame, stats>>
  ELSE /\ stats' = updateStats(stats, Dimension(activeGame), perf)
       /\ showResult' = [score |-> perf, accuracy |-> accuracy,
                         level |-> level, game |-> activeGame]
       /\ activeGame' = "none"

onComplete(perf, accuracy, level) ==
  /\ completeCalls' = completeCalls + 1
  /\ handleGameComplete(perf, accuracy, level)

\* The dependencies of the timer effect and of the memory-phase effect
\* (definition.id and onComplete do not change while a session is mounted).
TimerDepsChanged ==
  timeLeft' # timeLeft \/ score' # score \/ difficulty' # difficulty

MemoryDepsChanged == memoryPhase' # memoryPhase \/ difficulty' # difficulty

\* The timer effect of the render that follows a handler: at timeLeft <= 0
\* it reports the result, otherwise it arms a new interval.
TimerEffect ==
  IF Mounted /\ TimerDepsChanged /\ timeLeft' <= 0
  THEN onComplete(Performance(score', difficulty'),
                  Accuracy(correctCount', totalCount'), difficulty')
  ELSE UNCHANGED <<completeCalls, showResult, activeGame, stats>>

\* The interval and the memorize timeout after the render: an effect that
\* runs again first clears the timer it armed, and so does the unmount.
EffectTimers ==
  /\ interval' =
       IF activeGame' = "none" THEN FALSE
       ELSE IF TimerDepsChanged THEN timeLeft' > 0
       ELSE interval
  /\ memoryTimer' =
       IF activeGame' = "none" THEN FALSE
       ELSE IF MemoryDepsChanged
            THEN activeGame' = "memory" /\ memoryPhase' = "memorize"
       ELSE memoryTimer
  /\ clock' =
       [armed |-> IF TimerDepsChanged THEN 0 ELSE clock.armed,
        tick  |-> IF timeLeft' # timeLeft THEN 0 ELSE clock.tick,
        pause |-> IF Len(advanceTimers') > Len(advanceTimers)
                  THEN 0 ELSE clock.pause,
        shown |-> IF MemoryDepsChanged THEN 0 ELSE clock.shown]

\* The render that follows the state updates of a handler of the session.
Render ==
  /\ TimerEffect
  /\ EffectTimers
  /\ UNCHANGED loop

\* ------------------------------------------------------------- handlers
Limit(rounds, wrong) == [rounds |-> rounds, wrong |-> wrong]

\* The bound of the model on the rounds a session resolves.
WithinLimit(L, isCorrect) ==
  /\ resolutions < L.rounds
  /\ isCorrect \/ resolutions - correctCount < L.wrong

\* The multiplier floored before the product.
ScoreAfterFlooredMultiplier(prev, d) == prev + 100 * ((10 + 2 * d) \div 10)

\* Math.floor(prev + basePoints * multiplier) with basePoints = 100 and
\* multiplier = 1 + difficulty * 0.2, in tenths.  (In IEEE doubles the
\* product is 100 + 20 * difficulty exactly, or above it by less than
\* 1e-13, for every difficulty 1..10, so the floor is the same.)
ScoreAfter(prev, d) == ((prev * 10) + 100 * (10 + 2 * d)) \div 10

\* The streak starting again at each level-up.
StreakAfterResetOnLevelUp(isCorrect, s) ==
  IF isCorrect /\ (s + 1) % 3 # 0 THEN s + 1 ELSE 0

StreakAfter(isCorrect, s) == IF isCorrect THEN s + 1 ELSE 0

\* Variants of the difficulty adjustment: without the cap, testing the
\* streak before its increment, without the floor, with a period of 2.
DifficultyAfterNoCap(isCorrect, d, s) ==
  IF isCorrect
  THEN IF (s + 1) % 3 = 0 THEN d + 1 ELSE d
  ELSE IF d > 1 THEN d - 1 ELSE d

DifficultyAfterOldStreak(isCorrect, d, s) ==
  IF isCorrect
  THEN IF s % 3 = 0 /\ d < 10 THEN d + 1 ELSE d
  ELSE IF d > 1 THEN d - 1 ELSE d

DifficultyAfterNoFloor(isCorrect, d, s) ==
  IF isCorrect
  THEN IF (s + 1) % 3 = 0 /\ d < 10 THEN d + 1 ELSE d
  ELSE d - 1

DifficultyAfterEverySecond(isCorrect, d, s) ==
  IF isCorrect
  THEN IF (s + 1) % 2 = 0 /\ d < 10 THEN d + 1 ELSE d
  ELSE IF d > 1 THEN d - 1 ELSE d

DifficultyAfter(isCorrect, d, s) ==
  IF isCorrect
  THEN IF (s + 1) % 3 = 0 /\ d < 10 THEN d + 1 ELSE d
  ELSE IF d > 1 THEN d - 1 ELSE d

\* What the round-advance timeout of handleAnswer keeps: definition.id,
\* the generateNextRound of the render the handler ran in, which is bound
\* to that render's difficulty, and the state setters of its instance.
AdvanceClosure ==
  [id |-> activeGame, difficulty |-> difficulty, mount |-> mounts]

\* handleAnswer with a score penalty on an incorrect answer.
handleAnswerPenalty(isCorrect, counted) ==
  /\ totalCount' =
       IF activeGame # "memory" /\ activeGame # "order"
       THEN counted + 1 ELSE counted
  /\ feedback' = IF isCorrect THEN "correct" ELSE "wrong"
  /\ correctCount' = IF isCorrect THEN correctCount + 1 ELSE correctCount
  /\ score' = IF isCorrect THEN ScoreAfter(score, difficulty)
              ELSE Max(0, score - 50)
  /\ streak' = StreakAfter(isCorrect, streak)
  /\ difficulty' = DifficultyAfter(isCorrect, difficulty, streak)
  /\ advanceTimers' = Append(advanceTimers, AdvanceClosure)
  /\ resolutions' = resolutions + 1
  /\ correctRun' = IF isCorrect THEN Append(correctRun, difficulty) ELSE <<>>

\* handleAnswer counting the rounds of the memory and the order game too.
handleAnswerCountsAll(isCorrect, counted) ==
  /\ totalCount' = counted + 1
  /\ feedback' = IF isCorrect THEN "correct" ELSE "wrong"
  /\ correctCount' = IF isCorrect THEN correctCount + 1 ELSE correctCount
  /\ score' = IF isCorrect THEN ScoreAfter(score, difficulty) ELSE score
  /\ streak' = StreakAfter(isCorrect, streak)
  /\ difficulty' = DifficultyAfter(isCorrect, difficulty, streak)
  /\ advanceTimers' = Append(advanceTimers, AdvanceClosure)
  /\ resolutions' = resolutions + 1
  /\ correctRun' = IF isCorrect THEN Append(correctRun, difficulty) ELSE <<>>

\* handleAnswer; `counted` is totalCountRef.current as the caller left it.
handleAnswer(isCorrect, counted) ==
  /\ totalCount' =
       IF activeGame # "memory" /\ activeGame # "order"
       THEN counted + 1 ELSE counted
  /\ feedback' = IF isCorrect THEN "correct" ELSE "wrong"
  /\ correctCount' = IF isCorrect THEN correctCount + 1 ELSE correctCount
  /\ score' = IF isCorrect THEN ScoreAfter(score, difficulty) ELSE score
  /\ streak' = StreakAfter(isCorrect, streak)
  /\ difficulty' = DifficultyAfter(isCorrect, difficulty, streak)
  /\ advanceTimers' = Append(advanceTimers, AdvanceClosure)
  /\ resolutions' = resolutions + 1
  /\ correctRun' = IF isCorrect THEN Append(correctRun, difficulty) ELSE <<>>

\* What no interaction with the game area changes directly.
InteractionFrame ==
  UNCHANGED <<timeLeft, currentData, memoryPhase, exitCalls, mounts>>

\* A click on one of the options of a math, stroop, schulte, visual, logic
\* or flanker round.
ClickOption(L) ==
  \E isCorrect \in BOOLEAN :
    /\ Mounted /\ ~Overlay
    /\ activeGame \in ChoiceGames
    /\ isCorrect \in Options(currentData)
    /\ WithinLimit(L, isCorrect)
    /\ handleAnswer(isCorrect, totalCount)
    /\ touched' = TRUE
    /\ UNCHANGED <<selectedIndices, nextOrderNum>>
    /\ InteractionFrame
    /\ Render

\* onMouseDown resolving the round as incorrect on a cell that is not the
\* active one.
ReflexPressCountsMiss(L) ==
  \E i \in 0 .. 24 :
    /\ Mounted /\ ~Overlay
    /\ activeGame = "reflex"
    /\ i < currentData.total
    /\ WithinLimit(L, i = currentData.activeIndex)
    /\ handleAnswer(i = currentData.activeIndex, totalCount)
    /\ touched' = TRUE
    /\ UNCHANGED <<selectedIndices, nextOrderNum>>
    /\ InteractionFrame
    /\ Render

\* onMouseDown on cell i of a reflex round.
ReflexPress(L) ==
  \E i \in 0 .. 24 :
    /\ Mounted /\ ~Overlay
    /\ activeGame = "reflex"
    /\ i < currentData.total
    /\ IF i = currentData.activeIndex
       THEN /\ WithinLimit(L, TRUE)
            /\ handleAnswer(TRUE, totalCount)
            /\ touched' = TRUE
            /\ UNCHANGED <<selectedIndices, nextOrderNum>>
            /\ InteractionFrame
            /\ Render
       ELSE /\ touched' = TRUE
            /\ UNCHANGED <<activeGame, mounts, showResult, session, interval,
                           memoryTimer, advanceTimers, completeCalls,
                           exitCalls, resolutions, correctRun, clock,
                           loop, stats>>

\* handleMemoryClick forgiving a slip: a click outside the targets clears
\* a partial selection and resolves the round only when nothing is selected.
handleMemoryClickForgiving(L, index) ==
  IF index \in selectedIndices
  THEN UNCHANGED <<totalCount, feedback, correctCount, score, streak,
                   difficulty, advanceTimers, resolutions, correctRun,
                   selectedIndices>>
  ELSE IF index \notin currentData.targets
  THEN IF selectedIndices = {}
       THEN /\ WithinLimit(L, FALSE)
            /\ handleAnswer(FALSE, totalCount + 1)
            /\ UNCHANGED selectedIndices
       ELSE /\ selectedIndices' = {}
            /\ UNCHANGED <<totalCount, feedback, correctCount, score, streak,
                           difficulty, advanceTimers, resolutions,
                           correctRun>>
  ELSE LET newSet == selectedIndices \cup {index} IN
       /\ selectedIndices' = newSet
       /\ IF Cardinality(newSet) = Cardinality(currentData.targets)
          THEN /\ WithinLimit(L, TRUE)
               /\ handleAnswer(TRUE, totalCount + 1)
          ELSE UNCHANGED <<totalCount, feedback, correctCount, score, streak,
                           difficulty, advanceTimers, resolutions,
                           correctRun>>

\* handleMemoryClick resolving the round one target early.
handleMemoryClickOneShort(L, index) ==
  IF index \in selectedIndices
  THEN UNCHANGED <<totalCount, feedback, correctCount, score, streak,
                   difficulty, advanceTimers, resolutions, correctRun,
                   selectedIndices>>
  ELSE IF index \notin currentData.targets
  THEN /\ WithinLimit(L, FALSE)
       /\ handleAnswer(FALSE, totalCount + 1)
       /\ UNCHANGED selectedIndices
  ELSE LET newSet == selectedIndices \cup {index} IN
       /\ selectedIndices' = newSet
       /\ IF Cardinality(newSet) + 1 = Cardinality(currentData.targets)
          THEN /\ WithinLimit(L, TRUE)
               /\ handleAnswer(TRUE, totalCount + 1)
          ELSE UNCHANGED <<totalCount, feedback, correctCount, score, streak,
                           difficulty, advanceTimers, resolutions,
                           correctRun>>

\* handleMemoryClick marking the cell that was clicked by mistake.
handleMemoryClickMarksWrong(L, index) ==
  IF index \in selectedIndices
  THEN UNCHANGED <<totalCount, feedback, correctCount, score, streak,
                   difficulty, advanceTimers, resolutions, correctRun,
                   selectedIndices>>
  ELSE IF index \notin currentData.targets
  THEN /\ WithinLimit(L, FALSE)
       /\ handleAnswer(FALSE, totalCount + 1)
       /\ selectedIndices' = selectedIndices \cup {index}
  ELSE LET newSet == selectedIndices \cup {index} IN
       /\ selectedIndices' = newSet
       /\ IF Cardinality(newSet) = Cardinality(currentData.targets)
          THEN /\ WithinLimit(L, TRUE)
               /\ handleAnswer(TRUE, totalCount + 1)
          ELSE UNCHANGED <<totalCount, feedback, correctCount, score, streak,
                           difficulty, advanceTimers, resolutions,
                           correctRun>>

\* handleMemoryClick leaving totalCountRef alone when the last target is
\* selected.
handleMemoryClickUncounted(L, index) ==
  IF index \in selectedIndices
  THEN UNCHANGED <<totalCount, feedback, correctCount, score, streak,
                   difficulty, advanceTimers, resolutions, correctRun,
                   selectedIndices>>
  ELSE IF index \notin currentData.targets
  THEN /\ WithinLimit(L, FALSE)
       /\ handleAnswer(FALSE, totalCount + 1)
       /\ UNCHANGED selectedIndices
  ELSE LET newSet == selectedIndices \cup {index} IN
       /\ selectedIndices' = newSet
       /\ IF Cardinality(newSet) = Cardinality(currentData.targets)
          THEN /\ WithinLimit(L, TRUE)
               /\ handleAnswer(TRUE, totalCount)
          ELSE UNCHANGED <<totalCount, feedback, correctCount, score, streak,
                           difficulty, advanceTimers, resolutions,
                           correctRun>>

handleMemoryClick(L, index) ==
  IF index \in selectedIndices
  THEN UNCHANGED <<totalCount, feedback, correctCount, score, streak,
                   difficulty, advanceTimers, resolutions, correctRun,
                   selectedIndices>>
  ELSE IF index \notin currentData.targets
  THEN /\ WithinLimit(L, FALSE)
       /\ handleAnswer(FALSE, totalCount + 1)
       /\ UNCHANGED selectedIndices
  ELSE LET newSet == selectedIndices \cup {index} IN
       /\ selectedIndices' = newSet
       /\ IF Cardinality(newSet) = Cardinality(currentData.targets)
          THEN /\ WithinLimit(L, TRUE)
               /\ handleAnswer(TRUE, totalCount + 1)
          ELSE UNCHANGED <<totalCount, feedback, correctCount, score, streak,
                           difficulty, advanceTimers, resolutions,
                           correctRun>>

\* The cells of the memory grid enabled in the memorize phase as well.
MemoryClickAtWhileShown(L, index) ==
  /\ Mounted /\ ~Overlay
  /\ activeGame = "memory"
  /\ index < currentData.gridSize * currentData.gridSize
  /\ index \notin selectedIndices
  /\ handleMemoryClick(L, index)
  /\ touched' = TRUE
  /\ UNCHANGED nextOrderNum
  /\ InteractionFrame
  /\ Render

\* A click on cell `index` of the memory grid; the cells are disabled in
\* the memorize phase and once selected.
MemoryClickAt(L, index) ==
  /\ Mounted /\ ~Overlay
  /\ activeGame = "memory"
  /\ index < currentData.gridSize * currentData.gridSize
  /\ ~(memoryPhase = "memorize" \/ index \in selectedIndices)
  /\ handleMemoryClick(L, index)
  /\ touched' = TRUE
  /\ UNCHANGED nextOrderNum
  /\ InteractionFrame
  /\ Render

MemoryClick(L) == \E index \in 0 .. 24 : MemoryClickAt(L, index)

\* handleOrderClick starting the sequence again on a click out of order.
handleOrderClickRestarts(L, num) ==
  IF num = nextOrderNum
  THEN IF num = currentData.maxNumber
       THEN /\ WithinLimit(L, TRUE)
            /\ handleAnswer(TRUE, totalCount + 1)
            /\ UNCHANGED nextOrderNum
       ELSE /\ nextOrderNum' = nextOrderNum + 1
            /\ UNCHANGED <<totalCount, feedback, correctCount, score, streak,
                           difficulty, advanceTimers, resolutions,
                           correctRun>>
  ELSE /\ nextOrderNum' = 1
       /\ UNCHANGED <<totalCount, feedback, correctCount, score, streak,
                      difficulty, advanceTimers, resolutions, correctRun>>

\* handleOrderClick completing the sequence one value early.
handleOrderClickOneShort(L, num) ==
  IF num = nextOrderNum
  THEN IF num >= currentData.maxNumber - 1
       THEN /\ WithinLimit(L, TRUE)
            /\ handleAnswer(TRUE, totalCount + 1)
            /\ UNCHANGED nextOrderNum
       ELSE /\ nextOrderNum' = nextOrderNum + 1
            /\ UNCHANGED <<totalCount, feedback, correctCount, score, streak,
                           difficulty, advanceTimers, resolutions,
                           correctRun>>
  ELSE /\ WithinLimit(L, FALSE)
       /\ handleAnswer(FALSE, totalCount + 1)
       /\ UNCHANGED nextOrderNum

\* handleOrderClick counting every step of the sequence as a round.
handleOrderClickCountsSteps(L, num) ==
  IF num = nextOrderNum
  THEN IF num = currentData.maxNumber
       THEN /\ WithinLimit(L, TRUE)
            /\ handleAnswer(TRUE, totalCount + 1)
            /\ UNCHANGED nextOrderNum
       ELSE /\ nextOrderNum' = nextOrderNum + 1
            /\ totalCount' = totalCount + 1
            /\ UNCHANGED <<feedback, correctCount, score, streak,
                           difficulty, advanceTimers, resolutions,
                           correctRun>>
  ELSE /\ WithinLimit(L, FALSE)
       /\ handleAnswer(FALSE, totalCount + 1)
       /\ UNCHANGED nextOrderNum

handleOrderClick(L, num) ==
  IF num = nextOrderNum
  THEN IF num = currentData.maxNumber
       THEN /\ WithinLimit(L, TRUE)
            /\ handleAnswer(TRUE, totalCount + 1)
            /\ UNCHANGED nextOrderNum
       ELSE /\ nextOrderNum' = nextOrderNum + 1
            /\ UNCHANGED <<totalCount, feedback, correctCount, score, streak,
                           difficulty, advanceTimers, resolutions,
                           correctRun>>
  ELSE /\ WithinLimit(L, FALSE)
       /\ handleAnswer(FALSE, totalCount + 1)
       /\ UNCHANGED nextOrderNum

\* A click on the button carrying `num`; the buttons below nextOrderNum
\* are disabled.
OrderClickAt(L, num) ==
  /\ Mounted /\ ~Overlay
  /\ activeGame = "order"
  /\ num <= currentData.maxNumber
  /\ ~(num < nextOrderNum)
  /\ handleOrderClick(L, num)
  /\ touched' = TRUE
  /\ UNCHANGED selectedIndices
  /\ InteractionFrame
  /\ Render

OrderClick(L) == \E num \in 1 .. 25 : OrderClickAt(L, num)

\* Enter or Space while the feedback overlay is shown.  The button whose
\* click resolved the round holds the focus, the overlay takes no keyboard
\* input, and unless the button has become disabled the key runs its
\* onClick again, in the handlers of the latest render.  The cells of a
\* reflex round listen to onMouseDown, which no key fires.
KeyActivate(L) ==
  /\ Mounted /\ Overlay /\ touched
  /\ \/ /\ activeGame \in ChoiceGames
        /\ WithinLimit(L, feedback = "correct")
        /\ handleAnswer(feedback = "correct", totalCount)
        /\ UNCHANGED <<selectedIndices, nextOrderNum>>
     \/ /\ activeGame = "memory"
        /\ feedback = "wrong"
        /\ \E index \in 0 .. 24 :
             /\ index < currentData.gridSize * currentData.gridSize
             /\ index \notin currentData.targets
             /\ ~(memoryPhase = "memorize" \/ index \in selectedIndices)
             /\ handleMemoryClick(L, index)
        /\ UNCHANGED nextOrderNum
     \/ /\ activeGame = "order"
        /\ \E num \in 1 .. 25 :
             /\ num <= currentData.maxNumber
             /\ ~(num < nextOrderNum)
             /\ (feedback = "correct") <=> (num = nextOrderNum)
             /\ handleOrderClick(L, num)
        /\ UNCHANGED selectedIndices
  /\ touched' = TRUE
  /\ InteractionFrame
  /\ Render

\* The memorize timeout of the memory-phase effect fires (a state update
\* of an unmounted session is dropped).
MemoryTimer ==
  /\ memoryTimer
  /\ memoryPhase' = IF Mounted THEN "recall" ELSE memoryPhase
  /\ UNCHANGED <<timeLeft, score, difficulty, streak, currentData, feedback,
                 selectedIndices, nextOrderNum, correctCount, totalCount,
                 advanceTimers, exitCalls, resolutions, correctRun, mounts,
                 touched>>
  /\ Render

\* The round-advance callback leaving the selection of a memory round and
\* the next number of an order round as they are.
AdvanceRoundToKeepsSubState(rounds) ==
  /\ advanceTimers # <<>>
  /\ advanceTimers' = Tail(advanceTimers)
  /\ LET c == Head(advanceTimers) IN
     IF Mounted /\ c.mount = mounts
     THEN /\ feedback' = "none"
          /\ currentData' \in rounds
          /\ memoryPhase' = IF c.id = "memory" THEN "memorize" ELSE memoryPhase
          /\ UNCHANGED <<selectedIndices, nextOrderNum>>
          /\ UNCHANGED <<timeLeft, score, difficulty, streak, correctCount,
                         totalCount>>
     ELSE UNCHANGED session
  /\ touched' = IF Mounted /\ Head(advanceTimers).mount = mounts
                THEN FALSE ELSE touched
  /\ UNCHANGED <<exitCalls, resolutions, correctRun, mounts>>
  /\ Render

\* The oldest round-advance timeout fires.  handleAnswer keeps no handle to
\* clear it: after its session is unmounted its state updates are dropped
\* (they address the unmounted instance, also when another is mounted).
AdvanceRoundTo(rounds) ==
  /\ advanceTimers # <<>>
  /\ advanceTimers' = Tail(advanceTimers)
  /\ LET c == Head(advanceTimers) IN
     IF Mounted /\ c.mount = mounts
     THEN /\ feedback' = "none"
          /\ currentData' \in rounds
          /\ memoryPhase' = IF c.id = "memory" THEN "memorize" ELSE memoryPhase
          /\ selectedIndices' = IF c.id = "memory" THEN {} ELSE selectedIndices
          /\ nextOrderNum' = IF c.id = "order" THEN 1 ELSE nextOrderNum
          /\ UNCHANGED <<timeLeft, score, difficulty, streak, correctCount,
                         totalCount>>
     ELSE UNCHANGED session
  /\ touched' = IF Mounted /\ Head(advanceTimers).mount = mounts
                THEN FALSE ELSE touched
  /\ UNCHANGED <<exitCalls, resolutions, correctRun, mounts>>
  /\ Render

AdvanceRound ==
  AdvanceRoundTo(generateNextRound(Head(advanceTimers).id,
                                   Head(advanceTimers).difficulty))

\* The same callback, the round it stores taken with its whole content.
AdvanceRoundContent ==
  AdvanceRoundTo(generateRoundContent(Head(advanceTimers).id,
                                      Head(advanceTimers).difficulty))

\* The interval callback taking two seconds at a time.
TickTwo ==
  /\ interval
  /\ timeLeft' = IF Mounted THEN timeLeft - 2 ELSE timeLeft
  /\ UNCHANGED <<score, difficulty, streak, currentData, feedback,
                 memoryPhase, selectedIndices, nextOrderNum, correctCount,
                 totalCount, advanceTimers, exitCalls, resolutions,
                 correctRun, mounts, touched>>
  /\ Render

\* One firing of the countdown interval: setTimeLeft(prev => prev - 1) (a
\* state update of an unmounted session is dropped).
Tick ==
  /\ interval
  /\ timeLeft' = IF Mounted THEN timeLeft - 1 ELSE timeLeft
  /\ UNCHANGED <<score, difficulty, streak, currentData, feedback,
                 memoryPhase, selectedIndices, nextOrderNum, correctCount,
                 totalCount, advanceTimers, exitCalls, resolutions,
                 correctRun, mounts, touched>>
  /\ Render

\* Time passes by one quantum while no armed timer is past its delay.
Elapse ==
  /\ Mounted \/ advanceTimers # <<>>
  /\ interval => clock.armed < IntervalDelay \div Quantum
  /\ advanceTimers # <<>> =>
       clock.pause < AdvanceDelay(Head(advanceTimers).id) \div Quantum
  /\ memoryTimer => clock.shown < MemorizeDuration(difficulty) \div Quantum
  /\ clock' =
       [armed |-> IF interval THEN clock.armed + 1 ELSE clock.armed,
        tick  |-> IF Mounted THEN clock.tick + 1 ELSE clock.tick,
        pause |-> IF advanceTimers # <<>>
                  THEN clock.pause + 1 ELSE clock.pause,
        shown |-> IF memoryTimer THEN clock.shown + 1 ELSE clock.shown]
  /\ UNCHANGED <<activeGame, mounts, showResult, session, interval,
                 memoryTimer, advanceTimers, completeCalls, exitCalls,
                 resolutions, correctRun, touched, loop, stats>>

\* The callbacks of the timers at the moment their delay has passed.
TickDue == clock.armed = IntervalDelay \div Quantum /\ Tick

AdvanceRoundDue ==
  /\ advanceTimers # <<>>
  /\ clock.pause = AdvanceDelay(Head(advanceTimers).id) \div Quantum
  /\ AdvanceRound

MemoryTimerDue ==
  /\ clock.shown = MemorizeDuration(difficulty) \div Quantum
  /\ MemoryTimer

\* onExit without setActiveGame(null).
ExitStaysMounted ==
  /\ Mounted
  /\ exitCalls' = exitCalls + 1
  /\ UNCHANGED <<session, activeGame, showResult, advanceTimers,
                 completeCalls, resolutions, correctRun, interval,
                 memoryTimer, mounts, touched, clock, loop,
                 stats>>

\* The X button: onExit, which unmounts the session.
Exit ==
  /\ Mounted
  /\ exitCalls' = exitCalls + 1
  /\ activeGame' = "none"
  /\ UNCHANGED <<session, showResult, advanceTimers, completeCalls,
                 resolutions, correctRun, mounts, touched, loop,
                 stats>>
  /\ EffectTimers

\* A GameSession whose two counters outlive the instance.
GameSessionKeepsTally(game) ==
  /\ timeLeft' = GAME_DURATION
  /\ score' = 0
  /\ difficulty' = 1
  /\ streak' = 0
  /\ currentData' \in generateNextRound(game, 1)
  /\ feedback' = "none"
  /\ memoryPhase' = "memorize"
  /\ selectedIndices' = {}
  /\ nextOrderNum' = 1
  /\ UNCHANGED <<correctCount, totalCount>>
  /\ interval' = TRUE
  /\ memoryTimer' = (game = "memory")
  /\ clock' = ClockZero
  /\ UNCHANGED loop

\* A new GameSession instance for `game`: the initial useState and useRef
\* values, then the initial-load effect, the timer effect and the
\* memory-phase effect of its first render.
GameSession(game) ==
  /\ timeLeft' = GAME_DURATION
  /\ score' = 0
  /\ difficulty' = 1
  /\ streak' = 0
  /\ currentData' \in generateNextRound(game, 1)
  /\ feedback' = "none"
  /\ memoryPhase' = "memorize"
  /\ selectedIndices' = {}
  /\ nextOrderNum' = 1
  /\ correctCount' = 0
  /\ totalCount' = 0
  /\ interval' = TRUE
  /\ memoryTimer' = (game = "memory")
  /\ clock' = ClockZero
  /\ UNCHANGED loop

\* A click on a card of the games grid, which the session and the result
\* modal cover while they are shown: App.handleStartGame mounts a session.
handleStartGame ==
  \E game \in GAMES :
    /\ ~Mounted /\ showResult = NoResult
    /\ mounts < MaxSessions
    /\ activeGame' = game
    /\ showResult' = NoResult
    /\ mounts' = mounts + 1
    /\ GameSession(game)
    /\ completeCalls' = 0 /\ exitCalls' = 0
    /\ resolutions' = 0 /\ correctRun' = <<>>
    /\ touched' = FALSE
    /\ UNCHANGED <<advanceTimers, stats>>

\* The Continue button of the result modal.
CloseResult ==
  /\ showResult # NoResult
  /\ showResult' = NoResult
  /\ UNCHANGED <<activeGame, mounts, session, interval, memoryTimer,
                 advanceTimers, completeCalls, exitCalls, resolutions,
                 correctRun, touched, clock, loop, stats>>

\* ------------------------------------------------- the resampling loops
\* One pass of `while (choices.size < 4)` of generateMathQuestion, whatever
\* it draws: the choices it can leave.
MathPass(answer, choices) ==
  {LET fake == answer + (r - 5)
   IN  IF fake >= 0 /\ fake # answer THEN SetAdd(choices, fake)
       ELSE IF fake < 0 THEN SetAdd(choices, answer + (r2 + 1))
       ELSE choices :
     r \in FloorRandom(10), r2 \in FloorRandom(5)}

\* One pass of `while(choices.size < 4)` of generateNumberSeries.
SeriesPass(answer, choices) ==
  {LET fake == answer + (r - 10)
   IN  IF fake # answer /\ fake > 0 THEN SetAdd(choices, fake)
       ELSE choices :
     r \in FloorRandom(20)}

\* One pass of `while (indices.size < itemCount)` of generateMemoryGrid.
MemoryPass(totalCells, indices) ==
  {SetAdd(indices, r) : r \in FloorRandom(totalCells)}

\* One pass of `while (options.length < numOptions)` of
\* generateVisualMatchTask.
VisualPass(target, d, options) ==
  {Append(options, VisualOption(shape, FALSE)) :
     shape \in DistractorShapes(target, d)}

\* The loops as the generators enter them at level d (`answer` is read by
\* the loops of the math and the logic game, `target` by the visual one).
LoopStarts(d) ==
  UNION {{[gen |-> "math", level |-> d,
           answer |-> MathAnswer(operator, p[1], p[2]),
           target |-> <<0, 0>>,
           items |-> <<MathAnswer(operator, p[1], p[2])>>, attempts |-> 0] :
            p \in MathOperands(operator, d)} :
           operator \in MathOperators(d)}
  \cup {[gen |-> "logic", level |-> d, answer |-> t.answer,
         target |-> <<0, 0>>, items |-> <<t.answer>>, attempts |-> 0] :
          t \in ArithmeticSeries(d) \cup GeometricSeries
                  \cup AlternatingSeries}
  \cup {[gen |-> "memory", level |-> d, answer |-> 0,
         target |-> <<0, 0>>, items |-> <<>>, attempts |-> 0]}
  \cup {[gen |-> "visual", level |-> d, answer |-> 0, target |-> target,
         items |-> <<VisualOption(target, TRUE)>>, attempts |-> 0] :
          target \in {<<g, i>> : g \in FloorRandom(ShapeGroups),
                                 i \in FloorRandom(GroupShapes)}}

\* The number of options a loop has, and the number it runs for.
LoopSize(l) == Len(l.items)

LoopRequired(l) ==
  CASE l.gen = "memory" -> MemoryItemCount(l.level)
    [] l.gen = "visual" -> VisualNumOptions(l.level)
    [] OTHER -> 4

\* A generator is called and reaches its loop.
LoopStart ==
  /\ loop = NoLoop
  /\ \E d \in 1 .. 10 : loop' \in LoopStarts(d)
  /\ UNCHANGED <<activeGame, mounts, showResult, session, interval,
                 memoryTimer, advanceTimers, completeCalls, exitCalls,
                 resolutions, correctRun, touched, clock, stats>>

\* One pass of the loop `gen`, the items it leaves being one of `passes`.
LoopPass(gen, passes) ==
  /\ loop # NoLoop
  /\ loop.gen = gen
  /\ LoopSize(loop) < LoopRequired(loop)
  /\ loop.attempts < MaxAttempts
  /\ \E items \in passes :
       loop' = [loop EXCEPT !.items = items, !.attempts = @ + 1]
  /\ UNCHANGED <<activeGame, mounts, showResult, session, interval,
                 memoryTimer, advanceTimers, completeCalls, exitCalls,
                 resolutions, correctRun, touched, clock, stats>>

MathLoopPass == LoopPass("math", MathPass(loop.answer, loop.items))

SeriesLoopPass == LoopPass("logic", SeriesPass(loop.answer, loop.items))

MemoryLoopPass ==
  LoopPass("memory",
           MemoryPass(MemoryGridSize(loop.level) * MemoryGridSize(loop.level),
                      loop.items))

VisualLoopPass ==
  LoopPass("visual", VisualPass(loop.target, loop.level, loop.items))

\* ------------------------------------------------------- specifications
SessionLimit == Limit(MaxRounds, MaxRounds)

Next ==
  \/ ClickOption(SessionLimit)
  \/ ReflexPress(SessionLimit)
  \/ MemoryClick(SessionLimit)
  \/ OrderClick(SessionLimit)
  \/ MemoryTimer
  \/ AdvanceRound
  \/ Tick
  \/ Exit

Spec == Init /\ [][Next]_vars

\* Long sessions.  The timer effect arms a new interval whenever score or
\* difficulty changes, so the countdown does not advance while rounds are
\* resolved less than a second apart: any number of rounds can be resolved
\* before the first tick.  The memory game is left to Spec.
RampGames == GAMES \ {"memory"}

RampLimit == Limit(MaxRampRounds, MaxRampWrong)

RampInit == Init /\ activeGame \in RampGames

RampNext ==
  \/ ClickOption(RampLimit)
  \/ ReflexPress(RampLimit)
  \/ OrderClick(RampLimit)
  \/ AdvanceRound

SpecRamp == RampInit /\ [][RampNext]_vars

\* Sessions that expire after many rounds.  For the same reason any number
\* of rounds can be resolved between two ticks; here the player lets the
\* countdown run and answers in the last LateSeconds seconds.
LateLimit == Limit(MaxLateRounds, MaxLateWrong)

LateNext ==
  \/ timeLeft <= LateSeconds /\ ClickOption(LateLimit)
  \/ timeLeft <= LateSeconds /\ ReflexPress(LateLimit)
  \/ timeLeft <= LateSeconds /\ MemoryClick(LateLimit)
  \/ timeLeft <= LateSeconds /\ OrderClick(LateLimit)
  \/ MemoryTimer
  \/ AdvanceRound
  \/ Tick
  \/ Exit

SpecLate == Init /\ [][LateNext]_vars

\* Sessions that expire after several dozen rounds, for the tallies of
\* correct and resolved rounds: the player answers in the last seconds and
\* gives all the incorrect answers before the first correct one.
TallyLimit == Limit(MaxTallyRounds, MaxTallyRounds)

WrongAnswersFirst ==
  correctCount = 0 \/ ~(resolutions' > resolutions /\ feedback' = "wrong")

TallyNext ==
  \/ timeLeft <= LateSeconds /\ ClickOption(TallyLimit) /\ WrongAnswersFirst
  \/ timeLeft <= LateSeconds /\ ReflexPress(TallyLimit)
  \/ timeLeft <= LateSeconds /\ OrderClick(TallyLimit) /\ WrongAnswersFirst
  \/ AdvanceRound
  \/ Tick
  \/ Exit

SpecTally == RampInit /\ [][TallyNext]_vars

\* Sessions mounted one after the other, each ended by its expiry or by
\* an exit; the player answers in the last seconds.
RestartLimit == Limit(MaxRestartRounds, MaxRestartRounds)

RestartNext ==
  \/ timeLeft <= LateSeconds /\ ClickOption(RestartLimit)
  \/ timeLeft <= LateSeconds /\ ReflexPress(RestartLimit)
  \/ timeLeft <= LateSeconds /\ MemoryClick(RestartLimit)
  \/ timeLeft <= LateSeconds /\ OrderClick(RestartLimit)
  \/ MemoryTimer
  \/ AdvanceRound
  \/ Tick
  \/ Exit
  \/ CloseResult
  \/ handleStartGame

SpecRestart == Init /\ [][RestartNext]_vars

\* The generators at every difficulty: a session of correct answers only,
\* without countdown, in which the round that is the first one generated
\* at each difficulty is stored with its whole content; the content of a
\* choice round or of an order grid is not played on.
GenLimit == Limit(MaxGenRounds, 0)

FirstAtLevel ==
  LET n == Len(correctRun)
  IN  n = 1 \/ (n > 1 /\ correctRun[n - 1] # correctRun[n])

Inspected ==
  currentData \notin generateNextRound(currentData.id, currentData.level)

GenNext ==
  \/ ~Inspected /\ ClickOption(GenLimit)
  \/ ReflexPress(GenLimit)
  \/ MemoryTimer
  \/ MemoryClick(GenLimit)
  \/ ~Inspected /\ OrderClick(GenLimit)
  \/ AdvanceRound
  \/ FirstAtLevel /\ AdvanceRoundContent

SpecGen == Init /\ [][GenNext]_vars

\* Sessions in which every round-advance timeout that is armed fires in
\* the end: the event loop runs the callback of a setTimeout that nothing
\* clears.  Interactions, ticks and the exit button are up to the player and
\* to the clock, and carry no fairness.
FairLimit == Limit(MaxFairRounds, MaxFairRounds)

FairNext ==
  \/ ClickOption(FairLimit)
  \/ ReflexPress(FairLimit)
  \/ MemoryClick(FairLimit)
  \/ OrderClick(FairLimit)
  \/ MemoryTimer
  \/ AdvanceRound
  \/ Tick
  \/ Exit

SpecFair == Init /\ [][FairNext]_vars /\ WF_vars(AdvanceRound)

\* Sessions in real time, for their first MaxClockSeconds ticks: a timer's
\* callback runs when its delay has passed, the player clicks at any moment.
ClockLimit == Limit(MaxClockRounds, MaxClockRounds)

ClockNext ==
  \/ ClickOption(ClockLimit)
  \/ ReflexPress(ClockLimit)
  \/ MemoryClick(ClockLimit)
  \/ OrderClick(ClockLimit)
  \/ timeLeft > GAME_DURATION - MaxClockSeconds /\ Elapse
  \/ MemoryTimerDue
  \/ AdvanceRoundDue
  \/ TickDue
  \/ Exit

SpecClock == Init /\ [][ClockNext]_vars

\* The generators run on their own, up to MaxAttempts passes of their
\* loops.
LoopsNext ==
  \/ LoopStart
  \/ MathLoopPass
  \/ SeriesLoopPass
  \/ MemoryLoopPass
  \/ VisualLoopPass

SpecLoops == Init /\ [][LoopsNext]_vars

\* Sessions played with the pointer and with the keyboard.
KeysLimit == Limit(MaxKeysRounds, MaxKeysRounds)

KeysNext ==
  \/ ClickOption(KeysLimit)
  \/ ReflexPress(KeysLimit)
  \/ MemoryClick(KeysLimit)
  \/ OrderClick(KeysLimit)
  \/ KeyActivate(KeysLimit)
  \/ MemoryTimer
  \/ AdvanceRound
  \/ Tick
  \/ Exit

SpecKeys == Init /\ [][KeysNext]_vars

\* Sessions in which the memorize timeout fires in the end: the
\* memory-phase effect clears it only when memoryPhase or difficulty
\* changes, and arms it again while the phase is memorize.
SpecMemorize == Init /\ [][FairNext]_vars /\ WF_vars(MemoryTimer)

\* --------------------------------------------------------------- claims
\* A step that resolves a round, as correct or as incorrect.
ResolvedCorrect == resolutions' = resolutions + 1 /\ feedback' = "correct"
ResolvedWrong == resolutions' = resolutions + 1 /\ feedback' = "wrong"

\* C1: in a session that was not exited, onComplete has been invoked
\* exactly once when timeLeft has reached 0 and not at all before, whatever
\* ticks, answers, clicks and round-advance callbacks occurred and occur.
C1_CompleteOnceAtExpiry ==
  exitCalls = 0 => completeCalls = (IF timeLeft <= 0 THEN 1 ELSE 0)

\* An expired session that resolved a round whose round-advance timeout
\* was pending at expiry and has fired since.
C1_Witness ==
  /\ completeCalls = 1 /\ exitCalls = 0 /\ timeLeft = 0
  /\ feedback # "none" /\ advanceTimers = <<>>

\* C2: once the session is exited (which happens at timeLeft > 0) it is
\* unmounted with the countdown cleared, no result is shown and onComplete
\* has not been invoked, whatever was pending at the exit.
C2_ExitNeverCompletes ==
  exitCalls > 0 =>
    /\ completeCalls = 0
    /\ showResult = NoResult
    /\ activeGame = "none"
    /\ ~interval
    /\ timeLeft > 0

\* An exited session whose round-advance timeout, pending at the exit, has
\* fired since.
C2_Witness ==
  /\ exitCalls = 1 /\ timeLeft < GAME_DURATION
  /\ feedback # "none" /\ advanceTimers = <<>>

\* C3: difficulty is an integer in 1..10 in every reachable state.
C3_DifficultyInRange == difficulty \in 1 .. 10

\* A third consecutive correct answer at difficulty 10.
C3_Witness == difficulty = 10 /\ streak = 30 /\ feedback = "correct"

\* C4: a correct resolution makes streak streak + 1, and difficulty
\* difficulty + 1 exactly when the new streak is a multiple of 3 and
\* difficulty < 10; otherwise it leaves difficulty unchanged.
C4_CorrectResolution ==
  [][ResolvedCorrect =>
       /\ streak' = streak + 1
       /\ difficulty' =
            IF streak' % 3 = 0 /\ difficulty < 10
            THEN difficulty + 1 ELSE difficulty]_vars

\* A correct resolution that raised the difficulty in the middle of a
\* session, after an incorrect one.
C4_Witness ==
  /\ feedback = "correct" /\ streak = 3 /\ difficulty = 2
  /\ resolutions > correctCount

\* C5: an incorrect resolution makes streak 0 and difficulty
\* max(1, difficulty - 1).
C5_WrongResolution ==
  [][ResolvedWrong =>
       /\ streak' = 0
       /\ difficulty' = Max(1, difficulty - 1)
       /\ (difficulty > 1 => difficulty' = difficulty - 1)
       /\ (difficulty = 1 => difficulty' = 1)]_vars

\* Two incorrect resolutions after three correct ones: 2 -> 1, then 1 -> 1.
C5_Witness ==
  /\ feedback = "wrong" /\ difficulty = 1 /\ streak = 0
  /\ correctCount = 3 /\ resolutions = 5

\* C6: after three consecutive correct resolutions that started at a
\* difficulty d < 10, difficulty is d + 1; the first three correct answers
\* of a session take it from 1 to 2.
C6_ThreeCorrectRaiseByOne ==
  /\ Len(correctRun) >= 3 =>
       LET d == correctRun[Len(correctRun) - 2]
       IN  d < 10 => difficulty = d + 1
  /\ (resolutions = 3 /\ correctCount = 3) => difficulty = 2

\* Three consecutive correct resolutions that started inside a streak
\* (at streak 2) at difficulty 1.
C6_Witness ==
  /\ Len(correctRun) = 5 /\ correctRun[3] = 1 /\ difficulty = 2
  /\ resolutions > 5

\* C7: streak is the number of correct resolutions since the last
\* incorrect one (or since the start of the session).
C7_StreakCountsRun == streak = Len(correctRun)

\* A streak that went on through a difficulty increase.
C7_Witness == streak = 4 /\ correctRun = <<1, 1, 1, 2>> /\ difficulty = 2

\* C8: the live round was generated with the difficulty that resulted from
\* the resolution of the round before it.
C8_NextRoundAtNewDifficulty ==
  (Mounted /\ ~Overlay) => currentData.level = difficulty

\* C9: a correct resolution at difficulty d raises score by 100 + 20 * d.
C9_ScoreGain ==
  [][ResolvedCorrect => score' = score + 100 + 20 * difficulty]_vars

\* A correct resolution at difficulty 10.
C9_Witness ==
  /\ feedback = "correct" /\ correctRun # <<>>
  /\ correctRun[Len(correctRun)] = 10

\* C10: score is a non-negative integer, never decreases, and changes only
\* in a correct resolution.
C10_ScoreMonotone ==
  [][/\ score \in Nat /\ score' \in Nat
     /\ score' >= score
     /\ (score' # score => ResolvedCorrect)]_vars

\* An order session with a positive score after a tick, a round-advance,
\* an intermediate click and then an incorrect resolution.
C10_Witness ==
  /\ activeGame = "order" /\ score > 0 /\ timeLeft < GAME_DURATION
  /\ nextOrderNum > 1 /\ feedback = "wrong"

\* C11: the performance index reported at expiry is
\* min(100, round(score / 20 + difficulty * 6)) for the score and the
\* difficulty at expiry (round to nearest, the half upwards), and the index
\* of every reachable score and difficulty is an integer in 0..100.  score
\* is a multiple of 20, so score / 20 is exact in doubles.
C11_PerformanceIndex ==
  /\ score % 20 = 0
  /\ Performance(score, difficulty) \in 0 .. 100
  /\ completeCalls > 0 =>
       LET p == showResult.score
           x20 == score + 120 * difficulty
       IN  /\ p \in 0 .. 100
           /\ IF x20 >= 1990 THEN p = 100
              ELSE 20 * p - 10 <= x20 /\ x20 < 20 * p + 10

\* A session that expired with score / 20 + difficulty * 6 above 100.
C11_Witness ==
  /\ completeCalls = 1 /\ showResult.score = 100
  /\ score + 120 * difficulty > 2000 /\ resolutions > correctCount

\* C12: the accuracy reported at expiry is round(100 * correctCount /
\* totalCount) (round to nearest, the half upwards) when totalCount > 0 and
\* 0 when totalCount = 0, and lies in 0..100.
C12_AccuracyRounded ==
  completeCalls > 0 =>
    LET a == showResult.accuracy
    IN  /\ a \in 0 .. 100
        /\ IF totalCount = 0 THEN a = 0
           ELSE /\ 2 * totalCount * a - totalCount <= 200 * correctCount
                /\ 200 * correctCount < 2 * totalCount * a + totalCount

\* The state a session starts in, for the game activeGame.
FreshSession ==
  /\ difficulty = 1 /\ streak = 0 /\ score = 0
  /\ timeLeft = 60
  /\ correctCount = 0 /\ totalCount = 0
  /\ currentData.id = activeGame /\ currentData.level = 1
  /\ feedback = "none"
  /\ memoryPhase = "memorize" /\ selectedIndices = {}
  /\ nextOrderNum = 1

\* C13: every session, the first and each later one, starts with
\* difficulty 1, streak 0, score 0, timeLeft 60, both counters 0, a first
\* round generated at difficulty 1, the memory phase memorize, an empty
\* selection and nextOrderNum 1, whatever state the session before it
\* ended in; and a round-advance timeout left over from an earlier session
\* changes nothing of the state of the one that is mounted.
C13_FreshStart ==
  /\ FreshSession
  /\ [][(activeGame = "none" /\ activeGame' # "none") => FreshSession']_vars
  /\ [][(/\ advanceTimers # <<>>
         /\ advanceTimers' = Tail(advanceTimers)
         /\ Head(advanceTimers).mount # mounts) => UNCHANGED session]_vars

\* A second session, of the memory game, in its start state while the
\* last round-advance timeout of the first one, which had reached
\* difficulty 2, is still pending.
C13_Witness ==
  /\ mounts = 2 /\ activeGame = "memory" /\ FreshSession
  /\ advanceTimers # <<>>
  /\ Head(advanceTimers) = [id |-> "memory", difficulty |-> 2, mount |-> 1]

\* C14: timeLeft stays in 0..60; a firing of the countdown interval in a
\* running session takes exactly 1 from it and no other step changes it
\* (the step that does changes nothing else of the session's state); when
\* it reaches 0 the session is ended (unmounted, its result reported, the
\* interval cleared), whatever the round and the feedback are, and it
\* stays 0.
C14_Countdown ==
  [][/\ timeLeft \in 0 .. 60 /\ timeLeft' \in 0 .. 60
     /\ (Tick /\ Mounted) => timeLeft' = timeLeft - 1
     /\ timeLeft' # timeLeft =>
          /\ timeLeft' = timeLeft - 1
          /\ Mounted /\ interval
          /\ UNCHANGED <<score, difficulty, streak, currentData, feedback,
                         memoryPhase, selectedIndices, nextOrderNum,
                         correctCount, totalCount, advanceTimers>>
     /\ timeLeft' = 0 =>
          activeGame' = "none" /\ ~interval' /\ completeCalls' = 1
     /\ timeLeft = 0 => timeLeft' = 0]_vars

\* A memory session that expired during the feedback pause of a round
\* resolved as incorrect after a partial selection.
C14_Witness ==
  /\ timeLeft = 0 /\ activeGame = "none" /\ currentData.id = "memory"
  /\ selectedIndices # {} /\ feedback = "wrong" /\ advanceTimers # <<>>

\* C15: once the session has ended, by expiry or by exit, its timers are
\* cancelled: neither the countdown interval nor the memorize timeout nor a
\* round-advance timeout is pending, so that no callback of the session
\* fires afterwards.
C15_TimersCancelledAtEnd ==
  activeGame = "none" =>
    ~interval /\ ~memoryTimer /\ advanceTimers = <<>>

\* C16: in the recall phase of a memory round a click on a cell outside
\* the targets resolves the round as incorrect in the same step, whatever
\* is selected so far; the selection stays as it is.
C16_NonTargetResolvesWrong ==
  [][\A index \in 0 .. 24 :
       (MemoryClickAt(LateLimit, index)
          /\ index \notin currentData.targets) =>
         /\ memoryPhase = "recall"
         /\ ResolvedWrong
         /\ selectedIndices' = selectedIndices]_vars

\* A memory round on the 4 x 4 grid resolved as incorrect with a part of
\* the targets selected.
C16_Witness ==
  /\ activeGame = "memory" /\ memoryPhase = "recall" /\ feedback = "wrong"
  /\ currentData.gridSize = 4
  /\ selectedIndices # {} /\ selectedIndices \subseteq currentData.targets
  /\ selectedIndices # currentData.targets

\* C17: a memory round resolves as correct exactly when the selection
\* becomes the whole target set: the click that completes the targets
\* resolves it as correct in the same step, a click on a target that leaves
\* one unselected resolves nothing, and no round is resolved as correct
\* with a target unselected.
C17_CorrectIffAllTargets ==
  [][activeGame = "memory" =>
       /\ ResolvedCorrect => selectedIndices' = currentData.targets
       /\ (selectedIndices' # selectedIndices
             /\ selectedIndices' = currentData.targets) => ResolvedCorrect
       /\ (selectedIndices' # selectedIndices
             /\ selectedIndices' # {}
             /\ selectedIndices' # currentData.targets) =>
            /\ resolutions' = resolutions
            /\ feedback' = "none"]_vars

\* A round with 5 targets on the 4 x 4 grid resolved as correct.
C17_Witness ==
  /\ activeGame = "memory" /\ feedback = "correct"
  /\ currentData.gridSize = 4
  /\ selectedIndices = currentData.targets
  /\ Cardinality(selectedIndices) = 5

C19_OutOfOrderResolvesWrong ==
  [][\A num \in 1 .. 25 :
       (OrderClickAt(RampLimit, num) /\ num # nextOrderNum) =>
         /\ ResolvedWrong
         /\ nextOrderNum' = nextOrderNum]_vars

\* A round on the 5 x 5 grid resolved as incorrect after 1..23 were
\* clicked in order.
C19_Witness ==
  /\ activeGame = "order" /\ feedback = "wrong"
  /\ currentData.maxNumber = 25 /\ nextOrderNum = 24

\* C20: in an order round nextOrderNum starts at 1, stays in 1..size^2 and
\* goes up by 1, resolving nothing, on each click on it below the maximum;
\* the round resolves as correct exactly in the click on the maximum
\* size^2 made while nextOrderNum equals it.
C20_OrderSequence ==
  [][activeGame = "order" =>
       /\ currentData.maxNumber = currentData.size * currentData.size
       /\ nextOrderNum \in 1 .. currentData.maxNumber
       /\ nextOrderNum' \in 1 .. currentData'.maxNumber
       /\ (feedback # "none" /\ feedback' = "none") => nextOrderNum' = 1
       /\ nextOrderNum' # nextOrderNum =>
            nextOrderNum' = nextOrderNum + 1 \/ nextOrderNum' = 1
       /\ \A num \in 1 .. 25 :
            (OrderClickAt(RampLimit, num) /\ num = nextOrderNum) =>
              IF num = currentData.maxNumber
              THEN ResolvedCorrect /\ nextOrderNum' = nextOrderNum
              ELSE /\ nextOrderNum' = nextOrderNum + 1
                   /\ resolutions' = resolutions /\ feedback' = "none"
       /\ ResolvedCorrect => nextOrderNum = currentData.maxNumber]_vars

\* A round on the 5 x 5 grid resolved as correct, the second one of its
\* session completed in order.
C20_Witness ==
  /\ activeGame = "order" /\ feedback = "correct"
  /\ currentData.size = 5 /\ nextOrderNum = 25 /\ streak >= 2

\* C21: in the games answered by one interaction (math, stroop, schulte,
\* visual, logic, flanker, reflex) a round whose buttons have received a
\* click or a press is resolved: no round of these games is on display
\* unresolved after an interaction with one of its buttons.
C21_FirstInteractionResolves ==
  (currentData.id \in ChoiceGames \cup {"reflex"} /\ touched) =>
    feedback \in {"correct", "wrong"}

\* C22: the choices of a math round and of a number-series round are 4
\* values, no two of them equal, and the answer is exactly one of them; the
\* choices of a math round are >= 0, those of a number series are > 0.
C22_ChoiceSets ==
  (Inspected /\ currentData.id \in {"math", "logic"}) =>
    LET choices == currentData.choices IN
    /\ Len(choices) = 4
    /\ \A i, j \in 1 .. Len(choices) : i # j => choices[i] # choices[j]
    /\ Cardinality({i \in 1 .. Len(choices) :
                      choices[i] = currentData.answer}) = 1
    /\ currentData.id = "math" => \A i \in 1 .. Len(choices) : choices[i] >= 0
    /\ currentData.id = "logic" => \A i \in 1 .. Len(choices) : choices[i] > 0

\* A math round whose answer is 0: fakes below 0 were drawn and replaced.
C22_Witness ==
  /\ Inspected /\ currentData.id = "math"
  /\ currentData.answer = 0
  /\ Len(currentData.choices) = 4
  /\ \E i \in 1 .. 4 : currentData.choices[i] = 5

\* C23: in a session of the math game each of the three operators '+',
\* '-' and '*' is the operator of a question the generator returns at one
\* of the difficulties 1..10 at least.
C23_EveryOperatorProduced ==
  activeGame = "math" =>
    \A operator \in Range(ops) :
      \E d \in 1 .. 10 :
        \E round \in generateMathQuestion(d) : round.question[2] = operator

\* C24: the answer of a math round is the value of the expression its
\* question shows, and a subtraction shows the larger operand first, so
\* that its value is not below 0.
C24_AnswerIsValue ==
  (Inspected /\ currentData.id = "math") =>
    LET a == currentData.question[1]
        operator == currentData.question[2]
        b == currentData.question[3]
    IN  /\ operator = "+" => currentData.answer = a + b
        /\ operator = "-" =>
             a >= b /\ currentData.answer = a - b /\ currentData.answer >= 0
        /\ operator = "*" => currentData.answer = a * b

\* The question 40 - 1 of difficulty 4, whose answer is 39.
C24_Witness ==
  /\ Inspected /\ currentData.id = "math" /\ currentData.level = 4
  /\ currentData.question = <<40, "-", 1>>
  /\ currentData.answer = 39

\* C25: a memory round has a grid of side 3, 4 or 5; its targets are cells
\* of the grid (indices 0..side*side-1, no index twice), at least 3 of them
\* and at most 60% of the cells, rounded down.
C25_MemoryGrid ==
  currentData.id = "memory" =>
    LET side == currentData.gridSize
        count == Cardinality(currentData.targets)
    IN  /\ side \in 3 .. 5
        /\ currentData.targets \subseteq 0 .. (side * side - 1)
        /\ count >= 3
        /\ count <= (6 * side * side) \div 10

\* A memory round of difficulty 10: 8 targets on the 5x5 grid.
C25_Witness ==
  /\ currentData.id = "memory" /\ currentData.level = 10
  /\ currentData.gridSize = 5
  /\ Cardinality(currentData.targets) = 8

\* C26: a schulte round and an order round have a grid of side 3, 4 or 5
\* whose cells hold every number of 1..side*side exactly once; the target
\* of a schulte round is one of these numbers, held by exactly one cell;
\* the maximum of an order round is side*side.
C26_GridsArePermutations ==
  (Inspected /\ currentData.id \in {"schulte", "order"}) =>
    LET side == currentData.size
        grid == currentData.grid
        CellsHolding(v) == {i \in 1 .. Len(grid) : grid[i] = v}
    IN  /\ side \in 3 .. 5
        /\ Len(grid) = side * side
        /\ \A v \in 1 .. side * side : Cardinality(CellsHolding(v)) = 1
        /\ currentData.id = "schulte" =>
             /\ currentData.target \in 1 .. side * side
             /\ Cardinality(CellsHolding(currentData.target)) = 1
        /\ currentData.id = "order" => currentData.maxNumber = side * side

\* A 5x5 schulte round of difficulty 10 whose target 25 is in the first cell.
C26_Witness ==
  /\ Inspected /\ currentData.id = "schulte" /\ currentData.level = 10
  /\ currentData.size = 5
  /\ currentData.target = 25
  /\ currentData.grid[1] = 25

\* C27: a visual round presents between 3 and 9 options; exactly one of
\* them has the shape of the target, and it is the one marked as the match;
\* no other option has the shape of the target.
C27_VisualOptions ==
  (Inspected /\ currentData.id = "visual") =>
    LET options == currentData.options
        Matching == {i \in 1 .. Len(options) :
                       options[i].shape = currentData.target}
    IN  /\ Len(options) \in 3 .. 9
        /\ Cardinality(Matching) = 1
        /\ \A i \in 1 .. Len(options) : options[i].isMatch <=> i \in Matching

\* C28: a flanker round shows 5 symbols; the one in the middle is the
\* target and the other four point in one and the same direction; the key
\* expected is the direction of the target when the reverse rule is off and
\* the opposite direction when it is on; below difficulty 3 it is off.
C28_FlankerSequence ==
  (Inspected /\ currentData.id = "flanker") =>
    LET sequence == currentData.sequence
        target == sequence[3]
    IN  /\ Len(sequence) = 5
        /\ \A i, j \in {1, 2, 4, 5} : sequence[i] = sequence[j]
        /\ ~currentData.isReverse => currentData.targetKey = target
        /\ currentData.isReverse => currentData.targetKey = Opp(target)
        /\ currentData.level < 3 => ~currentData.isReverse

\* A reversed round of difficulty 3: target left among flankers up, the key
\* expected is right.
C28_Witness ==
  /\ Inspected /\ currentData.id = "flanker" /\ currentData.level = 3
  /\ currentData.isReverse
  /\ currentData.sequence = <<"up", "up", "left", "up", "up">>
  /\ currentData.targetKey = "right"

\* C29: from each difficulty of 1..9 to the next, the side of the grid of
\* the memory, schulte, reflex and order rounds, the number of targets of a
\* memory round, the number of options of a visual round and the largest
\* operand of a math question do not decrease, and the time to memorize,
\* max(800, 2500 - 150 * difficulty), does not increase and is 800 at
\* least; the round on display has the parameters of its difficulty.
C29_MonotoneParameters ==
  /\ \A d \in 1 .. 9 :
       /\ MemoryGridSize(d) <= MemoryGridSize(d + 1)
       /\ SchulteGridSize(d) <= SchulteGridSize(d + 1)
       /\ ReflexGridSize(d) <= ReflexGridSize(d + 1)
       /\ OrderGridSize(d) <= OrderGridSize(d + 1)
       /\ MemoryItemCount(d) <= MemoryItemCount(d + 1)
       /\ VisualNumOptions(d) <= VisualNumOptions(d + 1)
       /\ MathOperandMax(d) <= MathOperandMax(d + 1)
       /\ MemorizeDuration(d) >= MemorizeDuration(d + 1)
  /\ \A d \in 1 .. 10 : MemorizeDuration(d) >= 800
  /\ LET d == currentData.level IN
     /\ d \in 1 .. 10
     /\ currentData.id = "memory" =>
          /\ currentData.gridSize = MemoryGridSize(d)
          /\ Cardinality(currentData.targets) = MemoryItemCount(d)
     /\ currentData.id = "reflex" => currentData.size = ReflexGridSize(d)
     /\ currentData.id = "order" => currentData.size = OrderGridSize(d)
     /\ (Inspected /\ currentData.id = "schulte") =>
          currentData.size = SchulteGridSize(d)
     /\ (Inspected /\ currentData.id = "visual") =>
          Len(currentData.options) = VisualNumOptions(d)
     /\ (Inspected /\ currentData.id = "math") =>
          /\ currentData.question[1] <= MathOperandMax(d)
          /\ currentData.question[3] <= MathOperandMax(d)

\* A math question of difficulty 10 with the operand 100, above the
\* largest operand of every lower difficulty.
C29_Witness ==
  /\ Inspected /\ currentData.id = "math" /\ currentData.level = 10
  /\ currentData.question[1] = 100
  /\ \A d \in 1 .. 9 : MathOperandMax(d) < 100

\* C30: while the session stays mounted, every feedback shown after a
\* resolution is cleared in the end; and the step that clears it is the
\* round advance: it takes the oldest pending timeout, stores a newly
\* generated round of the game that has received no interaction, puts a
\* memory round into the memorize phase with nothing selected and an order
\* round at the next number 1.
C30_RoundAdvance ==
  /\ [][(feedback # "none" /\ feedback' = "none") =>
          /\ Mounted /\ activeGame' = activeGame
          /\ advanceTimers # <<>> /\ advanceTimers' = Tail(advanceTimers)
          /\ currentData'.id = activeGame
          /\ currentData' \in generateNextRound(activeGame, currentData'.level)
          /\ touched' = FALSE
          /\ activeGame = "memory" =>
               memoryPhase' = "memorize" /\ selectedIndices' = {}
          /\ activeGame = "order" => nextOrderNum' = 1]_vars
  /\ [](Mounted /\ feedback # "none" => advanceTimers # <<>>)
  /\ (Mounted /\ feedback # "none") ~> (~Mounted \/ feedback = "none")

\* A memory round resolved as correct and replaced by the round advance:
\* the new round is in the memorize phase with nothing selected.
C30_Witness ==
  /\ Mounted /\ activeGame = "memory"
  /\ resolutions = 1 /\ correctCount = 1
  /\ feedback = "none" /\ advanceTimers = <<>>
  /\ memoryPhase = "memorize" /\ selectedIndices = {}
  /\ ~touched

\* C31: while the feedback of a resolved round is shown no interaction is
\* accepted: score, streak, difficulty, correctCount and totalCount change
\* only in a step taken while no feedback is shown, so at most once for
\* each generated round, and at most one round-advance callback is pending.
C31_ResolvedOnce ==
  /\ [][<<score, streak, difficulty, correctCount, totalCount>>' #
          <<score, streak, difficulty, correctCount, totalCount>>
          => feedback = "none"]_vars
  /\ [](Len(advanceTimers) <= 1)

\* C32: a memory round starts in the memorize phase (the first round and
\* every round stored by the round advance); while the phase is memorize no
\* step is a click: selection, score, streak, difficulty, counters,
\* feedback and round stay as they are; the memorize timeout is armed and,
\* unless the session ends first, the phase becomes recall in the end; the
\* phase goes from recall to memorize only in the round-advance step.
C32_MemorizePhase ==
  /\ activeGame = "memory" => memoryPhase = "memorize"
  /\ [][(activeGame = "memory" /\ feedback # "none" /\ feedback' = "none")
          => memoryPhase' = "memorize"]_vars
  /\ [][(Mounted /\ activeGame = "memory" /\ memoryPhase = "memorize")
          => UNCHANGED <<selectedIndices, score, streak, difficulty,
                         correctCount, totalCount, feedback, currentData,
                         resolutions, touched>>]_vars
  /\ [][(memoryPhase = "recall" /\ memoryPhase' = "memorize")
          => /\ feedback # "none" /\ feedback' = "none"
             /\ advanceTimers' = Tail(advanceTimers)
             /\ selectedIndices' = {}]_vars
  /\ [](Mounted /\ activeGame = "memory" /\ memoryPhase = "memorize"
          => memoryTimer)
  /\ (Mounted /\ activeGame = "memory" /\ memoryPhase = "memorize")
       ~> (~Mounted \/ memoryPhase = "recall")

\* The second round of a memory session in its recall phase, nothing
\* selected yet: it started in memorize and the timeout has fired.
C32_Witness ==
  /\ Mounted /\ activeGame = "memory"
  /\ resolutions = 1 /\ feedback = "none"
  /\ memoryPhase = "recall" /\ selectedIndices = {}
  /\ ~memoryTimer

\* C33: a click that adds to the selection of a memory round or takes an
\* order round to its next number without resolving it changes neither
\* score nor correctCount nor totalCount; and when the countdown expires
\* with such a round unresolved, the step changes none of score, counters
\* and difficulty, and the result it reports is the performance index of
\* that score and difficulty, the accuracy of those counters and that
\* difficulty as the level reached.
C33_ExpiryMidRound ==
  /\ [][(feedback = "none" /\ feedback' = "none"
           /\ (selectedIndices' # selectedIndices
                 \/ nextOrderNum' # nextOrderNum))
          => UNCHANGED <<score, correctCount, totalCount, resolutions>>]_vars
  /\ [][(completeCalls' # completeCalls /\ feedback = "none"
           /\ ((activeGame = "memory" /\ selectedIndices # {})
                 \/ (activeGame = "order" /\ nextOrderNum > 1)))
          => /\ UNCHANGED <<score, correctCount, totalCount, difficulty,
                            resolutions, feedback, selectedIndices,
                            nextOrderNum>>
             /\ timeLeft' = 0
             /\ showResult' =
                  [score |-> Performance(score, difficulty),
                   accuracy |-> Accuracy(correctCount, totalCount),
                   level |-> difficulty, game |-> activeGame]]_vars

\* An order session expired in its first round after the first 3 numbers:
\* no round counted, accuracy 0, level 1, performance index 6.
C33_Witness ==
  /\ showResult = [score |-> 6, accuracy |-> 0, level |-> 1, game |-> "order"]
  /\ nextOrderNum = 4 /\ feedback = "none"
  /\ totalCount = 0 /\ correctCount = 0 /\ score = 0
  /\ completeCalls = 1

\* C34: a running session's countdown fires once a second whatever the
\* player does: no more than IntervalDelay ms pass without a change of
\* timeLeft, so that the 60 ticks are over 60 seconds after the start.
C34_TickEverySecond ==
  Mounted => clock.tick <= IntervalDelay \div Quantum

\* C35: the attempts of each generator's resampling loop are bounded: a
\* pass of the loop does not leave the options as it found them (a pass
\* that adds nothing can be drawn again, any number of times), so that
\* the loop is over after as many passes as it has options to add.
C35_BoundedAttempts ==
  [][(loop # NoLoop /\ loop' # NoLoop /\ loop'.attempts > loop.attempts)
       => LoopSize(loop') > LoopSize(loop)]_vars

\* The part of it that the code meets: the loop of generateVisualMatchTask
\* adds an option in every pass.
C35_VisualLoopBounded ==
  (loop # NoLoop /\ loop.gen = "visual")
    => LoopSize(loop) = loop.attempts + 1

C37_MemorySelection ==
  /\ [](Mounted /\ activeGame = "memory" =>
          /\ selectedIndices \subseteq currentData.targets
          /\ feedback = "none" => selectedIndices # currentData.targets
          /\ feedback = "correct" => selectedIndices = currentData.targets)
  /\ [][(Mounted /\ activeGame = "memory"
           /\ selectedIndices' # selectedIndices) =>
          \/ /\ feedback = "none" /\ memoryPhase = "recall"
             /\ \E index \in currentData.targets \ selectedIndices :
                  selectedIndices' = selectedIndices \cup {index}
          \/ /\ feedback # "none" /\ feedback' = "none"
             /\ selectedIndices' = {}]_vars
  /\ [][\A index \in selectedIndices :
          (Mounted /\ activeGame = "memory"
             /\ handleMemoryClick(SessionLimit, index))
            => UNCHANGED <<selectedIndices, correctCount, totalCount, score,
                           streak, difficulty, feedback>>]_vars

\* A memory round in recall with 2 of its 3 targets selected.
C37_Witness ==
  /\ Mounted /\ activeGame = "memory" /\ memoryPhase = "recall"
  /\ feedback = "none"
  /\ Cardinality(selectedIndices) = 2
  /\ Cardinality(currentData.targets) = 3
  /\ selectedIndices \subseteq currentData.targets

\* C38: in a reflex session no round is resolved as incorrect: the
\* feedback is never "wrong", correctCount = totalCount = streak = the
\* resolutions made, a press on a cell that is not the active one changes
\* nothing of the session, and no step lowers the difficulty.
C38_ReflexNeverWrong ==
  /\ [](currentData.id = "reflex" =>
          /\ feedback # "wrong"
          /\ correctCount = totalCount
          /\ totalCount = resolutions
          /\ streak = resolutions)
  /\ [][currentData.id = "reflex" =>
          /\ difficulty' >= difficulty
          /\ (resolutions' = resolutions /\ advanceTimers' = advanceTimers
                /\ timeLeft' = timeLeft) => UNCHANGED session]_vars

\* A reflex session after 6 rounds, at level 3, a cell that is not the
\* active one pressed in the round on display.
C38_Witness ==
  /\ Mounted /\ activeGame = "reflex"
  /\ resolutions = 6 /\ correctCount = 6 /\ totalCount = 6 /\ streak = 6
  /\ difficulty = 3
  /\ feedback = "none" /\ touched

\* C39: the step in which a session completes sets the dimension of the
\* game played to clamp(round(0.7 * old + 0.3 * performanceIndex), 0, 100),
\* adds 1 to gamesPlayed and leaves the other dimensions as they are; no
\* other step, the exit of a session among them, changes a statistic; and
\* every dimension stays in 0..100.
C39_StatsUpdate ==
  /\ [](\A dim \in Dimensions : stats[dim] \in 0 .. 100)
  /\ [][IF Mounted /\ completeCalls' = completeCalls + 1
        THEN /\ \A dim \in Dimensions :
                  stats'[dim] =
                    IF dim = Dimension(activeGame)
                    THEN NewValExact(stats[dim], showResult'.score)
                    ELSE stats[dim]
             /\ stats'.gamesPlayed = stats.gamesPlayed + 1
        ELSE UNCHANGED stats]_vars

\* What the code meets of it: the same with the weighted average as the
\* doubles give it.
C39_StatsUpdateInDoubles ==
  /\ [](\A dim \in Dimensions : stats[dim] \in 0 .. 100)
  /\ [][IF Mounted /\ completeCalls' = completeCalls + 1
        THEN /\ \A dim \in Dimensions :
                  stats'[dim] =
                    IF dim = Dimension(activeGame)
                    THEN NewVal(stats[dim], showResult'.score)
                    ELSE stats[dim]
             /\ stats'.gamesPlayed = stats.gamesPlayed + 1
        ELSE UNCHANGED stats]_vars

====
